---- MODULE Spec2Model ----
(***************************************************************************)
(* Model of Beginner_AI_Agent_Notebook.ipynb: the simulated get_weather    *)
(* tool, the Tool wrapper, and the Agent with its tool registry and its    *)
(* print-based Thought / Action / Observation / Final Response run.        *)
(*                                                                         *)
(* Python strings that the code parses (the user input, the location) are  *)
(* sequences of one-character strings, so that strip and split are         *)
(* computed character by character.  Strings the code only stores,         *)
(* compares or prints whole (tool names, weather reports) are TLA+ strings.*)
(***************************************************************************)
EXTENDS Integers, Sequences, FiniteSets, TLC

VARIABLES
    tools,        \* Agent.tools: tool name -> Tool record
    before,       \* Agent.tools as it was when the last operation began
    op,           \* the last operation performed
    func,         \* the callable passed to the last register_tool call
    user_input,   \* the text the caller holds / passed to the last call
    ntok,         \* number of pieces the caller's text was built from
    location,     \* the location of the last Agent.run / get_weather call
    out,          \* the lines printed by the last operation, in order
    calls,        \* the handler invocations made by the last operation
    outcome,      \* how the last operation ended
    registered    \* history: name -> the callable most recently registered under it

vars == <<tools, before, op, func, user_input, ntok, location, out, calls, outcome,
          registered>>

-----------------------------------------------------------------------------
(* Bounds and input alphabet *)

MaxTokens == 4

Tokyo   == <<"T", "o", "k", "y", "o">>
NewYork == <<"N", "e", "w", " ", "Y", "o", "r", "k">>
Berlin  == <<"B", "e", "r", "l", "i", "n">>
InSep   == <<" ", "i", "n", " ">>

\* Pieces from which the caller's input text is put together.
Tokens ==
    { <<"x">>, <<" ">>, <<"\t">>, <<"?">>, <<"i", "n">>, InSep, Tokyo }

\* Arguments for direct calls of get_weather.
Locations ==
    { Tokyo, NewYork, Berlin, <<>>,
      <<"t", "o", "k", "y", "o">>, <<"T", "O", "K", "Y", "O">>,
      <<" ", "T", "o", "k", "y", "o">>, <<"T", "o", "k", "y", "o", " ">>,
      <<"N", "e", "w", "Y", "o", "r", "k">>,
      <<"N", "e", "w", " ", " ", "Y", "o", "r", "k">>,
      <<"n", "e", "w", " ", "y", "o", "r", "k">>,
      <<"b", "e", "r", "l", "i", "n">>, <<"P", "a", "r", "i", "s">> }

-----------------------------------------------------------------------------
(* Python str methods used by Agent.run *)

\* Characters removed by str.strip() without argument (those of them that
\* the inputs of this model can contain).
Whitespace == {" ", "\t", "\n"}

\* str.strip(chars): drop leading and trailing characters that are in chars.
Strip(s, chars) ==
    LET keep == {i \in 1..Len(s) : s[i] \notin chars}
    IN IF keep = {} THEN <<>>
       ELSE LET lo == CHOOSE i \in keep : \A j \in keep : i <= j
                hi == CHOOSE i \in keep : \A j \in keep : j <= i
            IN SubSeq(s, lo, hi)

\* str.find(sep): index of the leftmost occurrence of sep in s, 0 if none.
Find(s, sep) ==
    LET hits == {i \in 1..(Len(s) - Len(sep) + 1) : SubSeq(s, i, i + Len(sep) - 1) = sep}
    IN IF hits = {} THEN 0 ELSE CHOOSE i \in hits : \A j \in hits : i <= j

\* str.split(sep): the segments between the occurrences of sep, scanned
\* left to right without overlap.
RECURSIVE Split(_, _)
Split(s, sep) ==
    LET i == Find(s, sep)
    IN IF i = 0 THEN <<s>>
       ELSE <<SubSeq(s, 1, i - 1)>> \o Split(SubSeq(s, i + Len(sep), Len(s)), sep)

\* list[-1]
Last(l) == l[Len(l)]

-----------------------------------------------------------------------------
(* get_weather *)

FallbackReport == "Weather data not available."

simulated_weather ==
    [k \in {NewYork, Tokyo, Berlin} |->
        CASE k = NewYork -> "Partly cloudy, 15°C, 60% humidity"
          [] k = Tokyo   -> "Sunny, 28°C, 40% humidity"
          [] k = Berlin  -> "Rainy, 12°C, 85% humidity"]

swapped_weather ==
    [k \in {NewYork, Tokyo, Berlin} |->
        CASE k = NewYork -> "Partly cloudy, 15°C, 60% humidity"
          [] k = Tokyo   -> "Rainy, 12°C, 85% humidity"
          [] k = Berlin  -> "Sunny, 28°C, 40% humidity"]

\* Variant: the rows of Tokyo and Berlin exchanged.
get_weather_swapped(loc) ==
    IF loc \in DOMAIN swapped_weather THEN swapped_weather[loc] ELSE FallbackReport

\* Variant: the argument is trimmed before the lookup.
get_weather_trimmed(loc) ==
    IF Strip(loc, Whitespace) \in DOMAIN simulated_weather
    THEN simulated_weather[Strip(loc, Whitespace)] ELSE FallbackReport

\* simulated_weather.get(location, "Weather data not available.")
get_weather(loc) ==
    IF loc \in DOMAIN simulated_weather THEN simulated_weather[loc] ELSE FallbackReport

-----------------------------------------------------------------------------
(* Callables *)

NoDoc == "None"     \* __doc__ of a function without docstring

\* The notebook's get_weather function object.
GetWeatherFn ==
    [name |-> "get_weather", doc |-> "Fetches the weather for a given location.",
     body |-> "simulated_weather"]

\* Callables a caller may pass to register_tool: the notebook's get_weather,
\* two other functions that are also named get_weather (one returns a fixed
\* string and has no docstring, one raises), and a function of another name.
Funcs ==
    { GetWeatherFn,
      [name |-> "get_weather", doc |-> NoDoc, body |-> "fixed"],
      [name |-> "get_weather", doc |-> "Always fails.", body |-> "raises"],
      [name |-> "get_time", doc |-> "Tells the time.", body |-> "clock"] }

NoFunc == [name |-> "", doc |-> NoDoc, body |-> "none"]

\* f(**kwargs): the result of calling callable f with keyword arguments.
Call(f, kwargs) ==
    CASE f.body = "simulated_weather" -> [ok |-> TRUE, value |-> get_weather(kwargs.location)]
      [] f.body = "fixed"             -> [ok |-> TRUE, value |-> "Fixed report"]
      [] f.body = "clock"             -> [ok |-> TRUE, value |-> "12:00"]
      [] OTHER                        -> [ok |-> FALSE, value |-> "RuntimeError"]

-----------------------------------------------------------------------------
(* Tool *)

\* Tool.__init__
Tool(name, description, f) == [name |-> name, description |-> description, func |-> f]

\* Tool.run(**kwargs): forwards to the wrapped function, result unchanged.
ToolRun(tool, kwargs) == Call(tool.func, kwargs)

\* Python's None where a Tool is expected (dict.get on a missing key).
None == Tool("", "", NoFunc)

-----------------------------------------------------------------------------
(* Agent *)

\* One printed line: the fixed text of the print statement is its kind, the
\* values formatted into it are the remaining fields.
Msg(kind, tool, loc, result) ==
    [kind |-> kind, tool |-> tool, location |-> loc, result |-> result]

Thought         == Msg("Thought", "", <<>>, "")
ToolNotFound    == Msg("ToolNotFound", "", <<>>, "")
UpdatedThought  == Msg("UpdatedThought", "", <<>>, "")
ActionMsg(action)         == Msg("Action", action.action, action.action_input.location, "")
Observation(result)       == Msg("Observation", "", <<>>, result)
FinalResponse(loc, result) == Msg("FinalResponse", "", loc, result)

Returned(value) == [kind |-> "returned", value |-> value]
Raised(error)   == [kind |-> "raised", value |-> error]

\* Agent.__init__: self.tools = {}
EmptyRegistry == [n \in {} |-> None]

\* Variant: an existing entry is kept (dict.setdefault).
RegisterToolKeepFirst(reg, f) ==
    LET tool == Tool(f.name, IF f.doc = NoDoc THEN "" ELSE f.doc, f)
    IN [n \in DOMAIN reg \cup {tool.name} |-> IF n \in DOMAIN reg THEN reg[n] ELSE tool]

\* Variant: the entry is stored under the description instead of the name.
RegisterToolByDescription(reg, f) ==
    LET tool == Tool(f.name, IF f.doc = NoDoc THEN "" ELSE f.doc, f)
    IN [n \in DOMAIN reg \cup {tool.description} |->
           IF n = tool.description THEN tool ELSE reg[n]]

\* Agent.register_tool(func): the registry after the call.
RegisterTool(reg, f) ==
    LET tool == Tool(f.name, IF f.doc = NoDoc THEN "" ELSE f.doc, f)
    IN [n \in DOMAIN reg \cup {tool.name} |-> IF n = tool.name THEN tool ELSE reg[n]]

\* self.tools.get(name)
ToolsGet(reg, name) == IF name \in DOMAIN reg THEN reg[name] ELSE None

\* Variant: the segment before the first " in " is taken.
ExtractFirstSegment(text) ==
    Strip(Split(Strip(text, Whitespace), InSep)[1], {" ", "?", "."})

\* user_input.strip().split(" in ")[-1].strip(" ?.")
ExtractLocation(text) ==
    Strip(Last(Split(Strip(text, Whitespace), InSep)), {" ", "?", "."})

\* Variant: the tool is chosen from the words of the input.
PlanActionFromInput(text) ==
    [action |-> IF Find(text, <<"x">>) # 0 THEN "get_time" ELSE "get_weather",
     action_input |-> [location |-> ExtractLocation(text)]]

\* The action record built by Agent.run: always the tool "get_weather", with
\* the extracted location as its only argument.
PlanAction(text) ==
    [action |-> "get_weather", action_input |-> [location |-> ExtractLocation(text)]]

\* What one invocation of the handler is recorded as.
Invocation(f, kwargs) == [func |-> f, kwargs |-> kwargs]

\* The result of one Agent.run call: the value of its local variable
\* location, the lines printed, the handler invocations made, how the call
\* ends, and the registry after the call.
RunResult(action, lines, invoked, how, reg) ==
    [location |-> action.action_input.location, out |-> lines, calls |-> invoked,
     outcome |-> how, tools |-> reg]

\* Variant: the early return after the failure notice is missing, so the
\* call goes on to tool.run on None.
MissingToolNoReturn(reg, action) ==
    RunResult(action, <<Thought, ActionMsg(action), ToolNotFound>>, <<>>,
              Raised("AttributeError"), reg)

\* Agent.run when self.tools.get(action["action"]) is None.
MissingTool(reg, action) ==
    RunResult(action, <<Thought, ActionMsg(action), ToolNotFound>>, <<>>, Returned("None"), reg)

\* Variant: the error is caught, reported, and the tool is tried once more.
HandlerRaisedCaught(reg, action, tool, r) ==
    RunResult(action, <<Thought, ActionMsg(action), Msg("ToolFailed", "", <<>>, r.value)>>,
              <<Invocation(tool.func, action.action_input),
                Invocation(tool.func, action.action_input)>>,
              Returned("None"), reg)

\* Agent.run when tool.run raises: nothing is caught, the error leaves run.
HandlerRaised(reg, action, tool, r) ==
    RunResult(action, <<Thought, ActionMsg(action)>>,
              <<Invocation(tool.func, action.action_input)>>, Raised(r.value), reg)

\* Variant: the final response is printed before the observation.
CompletedOutOfOrder(reg, action, tool, r) ==
    RunResult(action, <<Thought, ActionMsg(action),
                FinalResponse(action.action_input.location, r.value),
                Observation(r.value), UpdatedThought>>,
              <<Invocation(tool.func, action.action_input)>>, Returned("None"), reg)

\* Variant: the tool is removed from the registry once it has been used.
CompletedAndForgets(reg, action, tool, r) ==
    RunResult(action, <<Thought, ActionMsg(action), Observation(r.value), UpdatedThought,
                FinalResponse(action.action_input.location, r.value)>>,
              <<Invocation(tool.func, action.action_input)>>, Returned("None"),
              [n \in DOMAIN reg \ {action.action} |-> reg[n]])

\* Agent.run when tool.run returns r.value.
Completed(reg, action, tool, r) ==
    RunResult(action, <<Thought, ActionMsg(action), Observation(r.value), UpdatedThought,
                FinalResponse(action.action_input.location, r.value)>>,
              <<Invocation(tool.func, action.action_input)>>, Returned("None"), reg)

\* Agent.run(user_input) on registry reg.
AgentRun(reg, text) ==
    LET action == PlanAction(text)
        tool   == ToolsGet(reg, action.action)
    IN IF tool = None
       THEN MissingTool(reg, action)
       ELSE LET r == ToolRun(tool, action.action_input)
            IN IF r.ok THEN Completed(reg, action, tool, r)
                       ELSE HandlerRaised(reg, action, tool, r)

-----------------------------------------------------------------------------
(* State machine *)

Init ==
    /\ tools = EmptyRegistry
    /\ before = EmptyRegistry
    /\ op = "new"
    /\ func = NoFunc
    /\ user_input = <<>>
    /\ ntok = 0
    /\ location = <<>>
    /\ out = <<>>
    /\ calls = <<>>
    /\ outcome = Returned("None")
    /\ registered = [n \in {} |-> NoFunc]

\* The caller appends one more piece to the text it is about to pass to run.
Compose(t) ==
    /\ ntok < MaxTokens
    /\ user_input' = user_input \o t
    /\ ntok' = ntok + 1
    /\ op' = "input"
    /\ before' = tools
    /\ func' = NoFunc
    /\ location' = <<>>
    /\ out' = <<>>
    /\ calls' = <<>>
    /\ outcome' = Returned("None")
    /\ UNCHANGED <<tools, registered>>

\* agent.register_tool(f)
Register(f) ==
    /\ tools' = RegisterTool(tools, f)
    /\ before' = tools
    /\ op' = "register_tool"
    /\ func' = f
    /\ user_input' = <<>>
    /\ ntok' = 0
    /\ location' = <<>>
    /\ out' = <<>>
    /\ calls' = <<>>
    /\ outcome' = Returned("None")
    /\ registered' = [n \in DOMAIN registered \cup {f.name} |->
                          IF n = f.name THEN f ELSE registered[n]]

\* agent.run(user_input)
Run ==
    LET r == AgentRun(tools, user_input)
    IN /\ tools' = r.tools
       /\ before' = tools
       /\ op' = "run"
       /\ func' = NoFunc
       /\ location' = r.location
       /\ out' = r.out
       /\ calls' = r.calls
       /\ outcome' = r.outcome
       /\ UNCHANGED <<user_input, ntok, registered>>

\* get_weather(loc), called directly
GetWeather(loc) ==
    /\ op' = "get_weather"
    /\ location' = loc
    /\ outcome' = Returned(get_weather(loc))
    /\ calls' = <<Invocation(GetWeatherFn, [location |-> loc])>>
    /\ before' = tools
    /\ func' = NoFunc
    /\ user_input' = <<>>
    /\ ntok' = 0
    /\ out' = <<>>
    /\ UNCHANGED <<tools, registered>>

Next ==
    \/ \E t \in Tokens : Compose(t)
    \/ \E f \in Funcs : Register(f)
    \/ Run
    \/ \E loc \in Locations : GetWeather(loc)

Spec == Init /\ [][Next]_vars

-----------------------------------------------------------------------------
(* Vocabulary of the properties *)

RunDone == op = "run"

HasKind(kind) == \E i \in DOMAIN out : out[i].kind = kind

EndsWith(s, suffix) ==
    /\ Len(s) >= Len(suffix)
    /\ SubSeq(s, Len(s) - Len(suffix) + 1, Len(s)) = suffix

\* s without its trailing characters that are in chars.
RStrip(s, chars) ==
    LET keep == {i \in 1..Len(s) : s[i] \notin chars}
    IN IF keep = {} THEN <<>>
       ELSE SubSeq(s, 1, CHOOSE i \in keep : \A j \in keep : j <= i)

\* The notebook's get_weather is what is registered under "get_weather".
WeatherRegistered(reg) ==
    /\ "get_weather" \in DOMAIN reg
    /\ reg["get_weather"].func = GetWeatherFn

SunnyReport == "Sunny, 28°C, 40% humidity"
InTokyo     == InSep \o Tokyo
SpaceIn     == <<" ", "i", "n">>
Trimmed     == {" ", "?", "."}
Surrounding == Whitespace \cup {"?", "."}

FinalResponseHas(report) ==
    \E i \in DOMAIN out : out[i].kind = "FinalResponse" /\ out[i].result = report

-----------------------------------------------------------------------------
(* C1 *)

\* C1, as stated: with get_weather registered, a run on ANY input that
\* contains " in Tokyo" prints a Final Response with the Tokyo report.
C1_AnyInputContainingInTokyo ==
    (RunDone /\ WeatherRegistered(before) /\ Find(user_input, InTokyo) # 0)
        => FinalResponseHas(SunnyReport)

\* text = prefix + " in Tokyo" + trailing, where prefix has a character that
\* is not whitespace and does not end with " in", and trailing consists of
\* spaces, '?' and '.' only.
C1_TokyoForm(text) ==
    \E k \in 1..Len(text) :
        /\ k + Len(InTokyo) - 1 <= Len(text)
        /\ SubSeq(text, k, k + Len(InTokyo) - 1) = InTokyo
        /\ \E i \in 1..(k - 1) : text[i] \notin Whitespace
        /\ ~EndsWith(SubSeq(text, 1, k - 1), SpaceIn)
        /\ \A j \in (k + Len(InTokyo))..Len(text) : text[j] \in Trimmed

\* C1, amended: with get_weather registered, a run on an input of the form
\* prefix + " in Tokyo" + trailing spaces/'?'/'.' (prefix not blank and not
\* ending with " in") prints a Final Response with the Tokyo report.
C1_InTokyoAtEnd ==
    (RunDone /\ WeatherRegistered(before) /\ C1_TokyoForm(user_input))
        => FinalResponseHas(SunnyReport)

C1_Witness ==
    /\ RunDone
    /\ WeatherRegistered(before)
    /\ C1_TokyoForm(user_input)
    /\ EndsWith(user_input, <<"?">>)
    /\ FinalResponseHas(SunnyReport)

-----------------------------------------------------------------------------
(* C2 *)

\* C2: a run while no tool named "get_weather" is registered prints the
\* failure notice, prints no Observation and no Final Response, invokes no
\* handler, and returns None.
C2_ToolNotFound ==
    (RunDone /\ "get_weather" \notin DOMAIN before)
        => /\ HasKind("ToolNotFound")
           /\ ~HasKind("Observation")
           /\ ~HasKind("FinalResponse")
           /\ calls = <<>>
           /\ outcome = Returned("None")

C2_Witness ==
    /\ RunDone
    /\ DOMAIN before = {"get_time"}
    /\ Find(user_input, InTokyo) # 0
    /\ HasKind("ToolNotFound")

-----------------------------------------------------------------------------
(* C3 *)

\* The location of the decomposition of text at the " in " that starts at
\* position k: what follows it, without the trailing characters in chars.
C3_LocationAt(text, k, chars) == RStrip(SubSeq(text, k + Len(InSep), Len(text)), chars)

\* l has no " in " and no surrounding whitespace, '?' or '.'.
C3_CleanLocation(l) ==
    /\ Find(l, InSep) = 0
    /\ l # <<>> => (l[1] \notin Surrounding /\ l[Len(l)] \notin Surrounding)

\* C3, as stated: the location is the last segment of the input split on
\* " in ", with surrounding whitespace, '?' and '.' removed; and for every
\* input prefix + " in " + location + trailing '?'/'.'/whitespace with a
\* clean location, the location is extracted exactly.
C3_AsStated ==
    RunDone =>
        /\ location = Strip(Last(Split(user_input, InSep)), Surrounding)
        /\ \A k \in 1..(Len(user_input) - Len(InSep) + 1) :
              (/\ SubSeq(user_input, k, k + Len(InSep) - 1) = InSep
               /\ C3_CleanLocation(C3_LocationAt(user_input, k, Surrounding)))
                  => location = C3_LocationAt(user_input, k, Surrounding)

\* The decomposition of text at position k that the amended claim covers.
C3_Covered(text, k) ==
    /\ SubSeq(text, k, k + Len(InSep) - 1) = InSep
    /\ \E i \in 1..(k - 1) : text[i] \notin Whitespace
    /\ ~EndsWith(SubSeq(text, 1, k - 1), SpaceIn)
    /\ C3_LocationAt(text, k, Trimmed) # <<>>
    /\ C3_CleanLocation(C3_LocationAt(text, k, Trimmed))
    /\ ~EndsWith(C3_LocationAt(text, k, Trimmed), SpaceIn)

\* C3, amended: the location is the last segment of the whitespace-trimmed
\* input split on " in ", with surrounding spaces, '?' and '.' removed; and
\* for every input prefix + " in " + location + trailing spaces/'?'/'.',
\* where prefix is not blank and does not end with " in" and the location is
\* non-empty, clean and does not end with " in", the location is extracted
\* exactly.
C3_TrimmedLastSegment ==
    RunDone =>
        /\ location = Strip(Last(Split(Strip(user_input, Whitespace), InSep)), Trimmed)
        /\ \A k \in 1..(Len(user_input) - Len(InSep) + 1) :
              C3_Covered(user_input, k) => location = C3_LocationAt(user_input, k, Trimmed)

C3_Witness ==
    /\ RunDone
    /\ \E k \in 1..(Len(user_input) - Len(InSep) + 1) :
          /\ C3_Covered(user_input, k)
          /\ location = <<"i", "n">>
          /\ Len(user_input) > k + Len(InSep) - 1 + Len(location)

-----------------------------------------------------------------------------
(* C4 *)

\* Position of a printed line's stage in Thought, Action, Observation,
\* Final Response; 0 for a line that belongs to no stage.
C4_Stage(m) ==
    CASE m.kind = "Thought"       -> 1
      [] m.kind = "Action"        -> 2
      [] m.kind = "Observation"   -> 3
      [] m.kind = "FinalResponse" -> 4
      [] OTHER                    -> 0

C4_StageLines == SelectSeq(out, LAMBDA m : C4_Stage(m) # 0)

\* C4: in the trace of a run the stage lines appear in the order Thought,
\* Action, Observation, Final Response, none of them twice; and when
\* "get_weather" is registered and its handler returns, all four are
\* printed and the Final Response is the last line.
C4_StagesInOrder ==
    RunDone =>
        /\ \A i, j \in DOMAIN out :
              (i < j /\ C4_Stage(out[i]) # 0 /\ C4_Stage(out[j]) # 0)
                  => C4_Stage(out[i]) < C4_Stage(out[j])
        /\ ("get_weather" \in DOMAIN before /\ outcome.kind = "returned")
              => /\ [i \in DOMAIN C4_StageLines |-> C4_Stage(C4_StageLines[i])]
                      = <<1, 2, 3, 4>>
                 /\ C4_Stage(out[Len(out)]) = 4

C4_Witness ==
    /\ RunDone
    /\ "get_weather" \in DOMAIN before
    /\ outcome.kind = "returned"
    /\ location = Tokyo
    /\ Len(out) = 5
    /\ out[5].kind = "FinalResponse"

-----------------------------------------------------------------------------
(* C5 *)

\* C5: get_weather returns exactly the stored report for the exact keys
\* "New York", "Tokyo" and "Berlin", and "Weather data not available." for
\* every other argument.
C5_TotalLookup ==
    op = "get_weather" =>
        outcome = Returned(
            CASE location = NewYork -> "Partly cloudy, 15°C, 60% humidity"
              [] location = Tokyo   -> "Sunny, 28°C, 40% humidity"
              [] location = Berlin  -> "Rainy, 12°C, 85% humidity"
              [] OTHER              -> "Weather data not available.")

C5_Witness ==
    /\ op = "get_weather"
    /\ location = <<" ", "T", "o", "k", "y", "o">>
    /\ outcome = Returned("Weather data not available.")

-----------------------------------------------------------------------------
(* C6 *)

\* C6: the tool stored under a name is the callable of the most recent
\* registration with that name; registering under a name already present
\* raises nothing and leaves the size of the registry unchanged; a run
\* invokes only the callable registered last under "get_weather".
C6_LastRegistrationWins ==
    /\ \A n \in DOMAIN registered :
          n \in DOMAIN tools /\ tools[n].func = registered[n]
    /\ (op = "register_tool" /\ func.name \in DOMAIN before)
          => /\ outcome.kind = "returned"
             /\ Cardinality(DOMAIN tools) = Cardinality(DOMAIN before)
             /\ tools[func.name].func = func
    /\ RunDone
          => \A i \in DOMAIN calls :
                /\ "get_weather" \in DOMAIN registered
                /\ calls[i].func = registered["get_weather"]

C6_Witness ==
    /\ op = "register_tool"
    /\ func.name \in DOMAIN before
    /\ before[func.name].func # func
    /\ tools[func.name].func = func

-----------------------------------------------------------------------------
(* C7 *)

\* C7: whatever the input and whatever else is registered, the only handler
\* a run invokes is the one stored under "get_weather", with the single
\* keyword argument location = the extracted location.
C7_FixedTool ==
    RunDone =>
        /\ out[2].kind = "Action" /\ out[2].tool = "get_weather"
        /\ \A i \in DOMAIN calls :
              /\ "get_weather" \in DOMAIN before
              /\ calls[i].func = before["get_weather"].func
              /\ DOMAIN calls[i].kwargs = {"location"}
              /\ calls[i].kwargs.location = ExtractLocation(user_input)

C7_Witness ==
    /\ RunDone
    /\ DOMAIN before = {"get_weather", "get_time"}
    /\ Find(user_input, <<"x">>) # 0
    /\ Len(calls) = 1

-----------------------------------------------------------------------------
(* C8 *)

\* C8: in every reachable state each key k of the registry maps to one Tool
\* record whose name is k and whose handler is the callable that was
\* registered under the name k.
C8_KeysAreNames ==
    \A k \in DOMAIN tools :
        /\ tools[k].name = k
        /\ tools[k].func.name = k
        /\ k \in DOMAIN registered
        /\ tools[k].func = registered[k]

C8_Witness ==
    /\ RunDone
    /\ DOMAIN tools = {"get_weather", "get_time"}
    /\ tools["get_time"].func.body = "clock"

-----------------------------------------------------------------------------
(* C9 *)

\* C9: a run leaves the registry as it found it, on the success path and on
\* the tool-not-found path, so running the same input again on the state the
\* run left behind prints the same trace.
C9_RunKeepsRegistry ==
    RunDone =>
        /\ tools = before
        /\ AgentRun(tools, user_input).out = out

C9_Witness ==
    /\ RunDone
    /\ HasKind("FinalResponse")
    /\ location = Tokyo
    /\ tools = before
    /\ DOMAIN tools = {"get_weather", "get_time"}

-----------------------------------------------------------------------------
(* C10 *)

\* The handler under "get_weather" raises when invoked with the location.
C10_HandlerRaises ==
    /\ "get_weather" \in DOMAIN before
    /\ ~Call(before["get_weather"].func, [location |-> location]).ok

\* C10: when the handler registered under "get_weather" raises, the run
\* invokes it exactly once, ends with that same error and prints neither an
\* Observation nor a Final Response nor any notice; the failure notice is
\* printed exactly when no tool named "get_weather" is registered.
C10_ErrorPropagates ==
    RunDone =>
        /\ C10_HandlerRaises
              => /\ Len(calls) = 1
                 /\ outcome = Raised(Call(before["get_weather"].func,
                                          [location |-> location]).value)
                 /\ [i \in DOMAIN out |-> out[i].kind] = <<"Thought", "Action">>
        /\ HasKind("ToolNotFound") <=> "get_weather" \notin DOMAIN before
        /\ outcome.kind = "raised" => C10_HandlerRaises

C10_Witness ==
    /\ RunDone
    /\ C10_HandlerRaises
    /\ outcome.kind = "raised"
    /\ Len(calls) = 1

====
